---- MODULE Spec2Model ----
(***************************************************************************)
(* Registration saga of the API (cmd/api auth handler): validation,        *)
(* username allocation, atomic Account+Invitation creation, mail dispatch  *)
(* and the compensating delete, together with the account repository the   *)
(* handler drives (internal/store, modelled from its documented contract). *)
(***************************************************************************)
EXTENDS Integers, Sequences, FiniteSets, TLC

\* ------------------------------------------------------------------------
\* Bounds of the model
\* ------------------------------------------------------------------------
NumReqs == 2                       \* concurrent registration requests

Reqs == 1..NumReqs

NumLoginReqs == 1                  \* registrations that run beside logins

LoginReqs == 1..NumLoginReqs

MaxNow == 1                        \* latest second at which a login arrives

MaxDrift == 1                      \* seconds that pass while a login is handled

\* ------------------------------------------------------------------------
\* Program constants
\* ------------------------------------------------------------------------
MaxAttemptsOffByOne == 5 + 1
MaxAttempts == 5                   \* for attempt := 0; attempt < 5; attempt++
MaxBaseLen == 20                   \* if len(base) > 20 { base = base[:20] }
SuffixLen == 6                     \* uuid.New().String()[:6]
FallbackLen == 12                  \* uuid.New().String()[:12]
PasswordMin == 3                   \* validate:"required,min=3,max=72"

\* ------------------------------------------------------------------------
\* Strings are sequences of one-character strings
\* ------------------------------------------------------------------------
Digits == {"0", "1", "2", "3", "4", "5", "6", "7", "8", "9"}

LowerLetters ==
    {"a", "b", "c", "d", "e", "f", "g", "h", "i", "j", "k", "l", "m",
     "n", "o", "p", "q", "r", "s", "t", "u", "v", "w", "x", "y", "z"}

\* usernameNonAlnum = regexp.MustCompile(`[^a-z0-9]+`): the characters kept
LowerAlnum == LowerLetters \cup Digits

\* strings.ToLower on one character (the upper-case letters the inputs use)
ToLowerChar(c) ==
    CASE c = "A" -> "a"
      [] c = "B" -> "b"
      [] c = "L" -> "l"
      [] OTHER -> c

ToLower(s) == [i \in 1..Len(s) |-> ToLowerChar(s[i])]

\* usernameNonAlnum.ReplaceAllString(s, "")
StripNonAlnum(s) == SelectSeq(s, LAMBDA c : c \in LowerAlnum)

Prefix(s, n) == IF Len(s) > n THEN SubSeq(s, 1, n) ELSE s

\* index of the first "@" in s, 0 when there is none
RECURSIVE IndexOfAt(_, _)
IndexOfAt(s, i) ==
    IF i > Len(s) THEN 0
    ELSE IF s[i] = "@" THEN i
    ELSE IndexOfAt(s, i + 1)

\* strings.Split(email, "@")[0]
LocalPart(email) ==
    IF IndexOfAt(email, 1) = 0 THEN email
    ELSE SubSeq(email, 1, IndexOfAt(email, 1) - 1)

\* uuid.New().String(), of which generateUsername reads the first 12
\* characters: eight hex digits, a hyphen, three hex digits
UUIDs ==
    { <<"0", "0", "0", "0", "0", "0", "0", "0", "-", "0", "0", "0">>,
      <<"1", "1", "1", "1", "1", "1", "1", "1", "-", "1", "1", "1">> }

\* generateUsername(firstName, lastName, email); id is the value of the one
\* uuid.New() call a run of the function makes
generateUsername(firstName, lastName, email, id) ==
    LET base1 == StripNonAlnum(ToLower(firstName \o <<".">> \o lastName))
        base2 == IF base1 = <<>>
                 THEN StripNonAlnum(ToLower(LocalPart(email)))
                 ELSE base1
    IN  IF base2 = <<>>
        THEN Prefix(id, FallbackLen)
        ELSE Prefix(base2, MaxBaseLen) \o Prefix(id, SuffixLen)

\* the plaintext passed on where the hash belongs
HashTokenForgotten(plainToken) == plainToken

\* hex.EncodeToString(sha256.Sum256([]byte(plainToken))): injective, and
\* never equal to its argument
HashToken(plainToken) == <<"sha256", plainToken>>

\* ------------------------------------------------------------------------
\* Request payloads
\* ------------------------------------------------------------------------
Ann == <<"A", "n", "n">>
Lee == <<"L", "e", "e">>
EmailAnn == <<"a", "n", "n", "@", "x">>
EmailLee == <<"l", "e", "e", "@", "x">>
Pass == <<"p", "w", "1">>
AnnLee0 == <<"a", "n", "n", "l", "e", "e", "0", "0", "0", "0", "0", "0">>

MkPayload(first, last, country, email, pw, conf, uname) ==
    [FirstName |-> first, LastName |-> last, Country |-> country,
     Email |-> email, Password |-> pw, PasswordConfirmation |-> conf,
     Username |-> uname]

Payloads ==
    { MkPayload(Ann, Lee, "KZ", EmailAnn, Pass, Pass, <<>>),
      MkPayload(Lee, Ann, "KZ", EmailLee, Pass, Pass, AnnLee0),
      MkPayload(Ann, Lee, "KZ", EmailAnn, Pass, <<"p", "w", "2">>, <<>>),
      MkPayload(<<>>, Lee, "KZ", EmailAnn, Pass, Pass, <<>>),
      MkPayload(Ann, Lee, "KZ", <<"a", "n", "n">>, Pass, Pass, <<>>),
      MkPayload(Ann, Lee, "KZ", EmailAnn, <<"p">>, <<"p">>, <<>>) }

\* payloads for each path of generateUsername: base from the names (short,
\* with punctuation, longer than 20), base from the email local part when
\* the names hold no [a-z0-9], and neither
LongName == [i \in 1..12 |-> "b"]

Dash == <<"-">>

UsernamePayloads ==
    { MkPayload(Ann, Lee, "KZ", EmailAnn, Pass, Pass, <<>>),
      MkPayload(<<"A", "-", "B">>, <<"l", " ", "9">>, "KZ", EmailAnn, Pass,
                Pass, <<>>),
      MkPayload(LongName, LongName, "KZ", EmailAnn, Pass, Pass, <<>>),
      MkPayload(Dash, Dash, "KZ", <<"L", ".", "a", "@", "x">>, Pass, Pass,
                <<>>),
      MkPayload(Dash, Dash, "KZ", <<"_", "@", "x">>, Pass, Pass, <<>>) }

NoPayload == MkPayload(<<>>, <<>>, "", <<>>, <<>>, <<>>, <<>>)

\* validate:"required,email": one "@" with text on both sides
IsEmail(e) ==
    /\ IndexOfAt(e, 1) > 1
    /\ IndexOfAt(e, 1) < Len(e)
    /\ IndexOfAt(e, IndexOfAt(e, 1) + 1) = 0

\* a validation without the eqfield=Password rule
ValidPayloadNoEqfield(p) ==
    /\ p.FirstName # <<>>
    /\ p.LastName # <<>>
    /\ p.Country # ""
    /\ IsEmail(p.Email)
    /\ Len(p.Password) >= PasswordMin

\* Validate.Struct(payload) on RegisterUserPayload
ValidPayload(p) ==
    /\ p.FirstName # <<>>
    /\ p.LastName # <<>>
    /\ p.Country # ""
    /\ IsEmail(p.Email)
    /\ Len(p.Password) >= PasswordMin
    /\ p.PasswordConfirmation = p.Password

\* ------------------------------------------------------------------------
\* State
\* ------------------------------------------------------------------------
VARIABLES
    users,          \* rows of the users table: [id, email, username,
                    \* password, isActive]
    invitations,    \* rows of user_invitations: [userId, token, consumed, expired]
    nextId,         \* next id the users table assigns
    outbox,         \* mails handed to the dispatcher: [to, username, url]
    pc,             \* per request: position in registerUserHandler
    payload,        \* per request: the decoded RegisterUserPayload
    user,           \* per request: the store.User being built (Username, ID)
    attempt,        \* per request: the loop counter
    plainToken,     \* per request: the plaintext invitation token 
    err,            \* per request: the err returned by app.mailer.Send
    resp,           \* per request: the responses written, in order
    calls,          \* per request: the collaborator calls of the running
                    \* handler, in order; of a returned handler, its last call
    login,          \* the response of the latest createTokenHandler call
    smtp            \* the latest NewSMTPClient call: [cfg, client, err]

vars == <<users, invitations, nextId, outbox, pc, payload, user,
          attempt, plainToken, err, resp, calls, login, smtp>>

storeVars == <<users, invitations, nextId>>

\* the zero value of plainToken, and a token nobody was ever issued
NoToken == <<>>

UnknownToken == <<"uuid", 0>>

\* the password credential of store.User: Set keeps a salted hash of the
\* plaintext, Compare accepts the plaintext the hash was made from
PasswordSet(plaintext) == <<"bcrypt", plaintext>>

PasswordCompare(hash, plaintext) == hash = <<"bcrypt", plaintext>>

\* ------------------------------------------------------------------------
\* mailer.NewSMTPClient
\* ------------------------------------------------------------------------
MkSMTP(host, port, username, password, fromEmail, useTLS, insecure) ==
    [host |-> host, port |-> port, username |-> username,
     password |-> password, fromEmail |-> fromEmail, useTLS |-> useTLS,
     insecureSkipVerify |-> insecure]

\* smtpClient{}
ZeroSMTPClient == MkSMTP("", 0, "", "", "", FALSE, FALSE)

\* the SMTPConfig values: each string empty or set, the port negative, zero
\* or set
SMTPConfigs ==
    {MkSMTP(h, p, u, pw, f, t, i) :
        h \in {"", "smtp.x"}, p \in {0 - 1, 0, 587}, u \in {"", "user"},
        pw \in {"", "secret"}, f \in {"", "from@x"}, t \in BOOLEAN,
        i \in BOOLEAN}

SMTPResult(client, e) == [client |-> client, err |-> e]

\* a constructor that takes port 0 for a port
NewSMTPClientZeroPort(cfg) ==
    IF cfg.host = "" THEN SMTPResult(ZeroSMTPClient, "SMTP host is required")
    ELSE IF cfg.port < 0
    THEN SMTPResult(ZeroSMTPClient, "SMTP port is required")
    ELSE IF cfg.username = ""
    THEN SMTPResult(ZeroSMTPClient, "SMTP username is required")
    ELSE IF cfg.password = ""
    THEN SMTPResult(ZeroSMTPClient, "SMTP password is required")
    ELSE IF cfg.fromEmail = ""
    THEN SMTPResult(ZeroSMTPClient, "FROM_EMAIL is required")
    ELSE SMTPResult(cfg, "nil")

NewSMTPClient(cfg) ==
    IF cfg.host = "" THEN SMTPResult(ZeroSMTPClient, "SMTP host is required")
    ELSE IF cfg.port <= 0
    THEN SMTPResult(ZeroSMTPClient, "SMTP port is required")
    ELSE IF cfg.username = ""
    THEN SMTPResult(ZeroSMTPClient, "SMTP username is required")
    ELSE IF cfg.password = ""
    THEN SMTPResult(ZeroSMTPClient, "SMTP password is required")
    ELSE IF cfg.fromEmail = ""
    THEN SMTPResult(ZeroSMTPClient, "FROM_EMAIL is required")
    ELSE SMTPResult(MkSMTP(cfg.host, cfg.port, cfg.username, cfg.password,
                           cfg.fromEmail, cfg.useTLS,
                           cfg.insecureSkipVerify), "nil")

\* NewSMTPClient has not been called
NoSMTP == [cfg |-> ZeroSMTPClient, client |-> ZeroSMTPClient, err |-> "none"]

\* client, err := mailer.NewSMTPClient(cfg)
NewClient(cfg) ==
    /\ smtp' = [cfg |-> cfg, client |-> NewSMTPClient(cfg).client,
                err |-> NewSMTPClient(cfg).err]
    /\ UNCHANGED <<users, invitations, nextId, outbox, pc, payload, user,
                   attempt, plainToken, err, resp, calls, login>>

\* no createTokenHandler call has been answered yet
NoLogin == [status |-> "none", err |-> "nil", claims |-> <<>>]

\* ------------------------------------------------------------------------
\* Account repository (store.Users)
\* ------------------------------------------------------------------------
\* what keeps a call that takes the request's ctx from reaching the
\* database: nothing, or ctx is already cancelled (client gone, upstream
\* timeout) and the call returns ctx.Err(); a failure of the database itself
\* takes the handler down the same paths
Faults == {"nil", "context canceled"}

StoreResult(e, id, us, invs, nid) ==
    [err |-> e, id |-> id, users |-> us, invitations |-> invs, nextId |-> nid]

StoreUnchanged(e) == StoreResult(e, 0, users, invitations, nextId)

CreateAndInviteTwoSteps(fault, username, email, password, token) ==
    IF \E u \in users : u.email = email
    THEN StoreUnchanged("ErrDuplicateEmail")
    ELSE IF \E u \in users : u.username = username
    THEN StoreUnchanged("ErrDuplicateUsername")
    ELSE StoreResult(fault, IF fault = "nil" THEN nextId ELSE 0,
            users \cup {[id |-> nextId, email |-> email,
                         username |-> username, password |-> password,
                         isActive |-> FALSE]},
            IF fault # "nil" THEN invitations
            ELSE invitations \cup {[userId |-> nextId, token |-> token,
                                    consumed |-> FALSE, expired |-> FALSE]},
            nextId + 1)

CreateAndInviteNoUsernameCheck(fault, username, email, password, token) ==
    IF fault # "nil" THEN StoreUnchanged(fault)
    ELSE IF \E u \in users : u.email = email
    THEN StoreUnchanged("ErrDuplicateEmail")
    ELSE StoreResult("nil", nextId,
            users \cup {[id |-> nextId, email |-> email,
                         username |-> username, password |-> password,
                         isActive |-> FALSE]},
            invitations \cup {[userId |-> nextId, token |-> token,
                               consumed |-> FALSE, expired |-> FALSE]},
            nextId + 1)

\* CreateAndInvite(ctx, user, token, exp): one transaction that inserts the
\* user row (Pending) and its invitation row, or nothing
CreateAndInvite(fault, username, email, password, token) ==
    IF fault # "nil" THEN StoreUnchanged(fault)
    ELSE IF \E u \in users : u.email = email
    THEN StoreUnchanged("ErrDuplicateEmail")
    ELSE IF \E u \in users : u.username = username
    THEN StoreUnchanged("ErrDuplicateUsername")
    ELSE StoreResult("nil", nextId,
            users \cup {[id |-> nextId, email |-> email,
                         username |-> username, password |-> password,
                         isActive |-> FALSE]},
            invitations \cup {[userId |-> nextId, token |-> token,
                               consumed |-> FALSE, expired |-> FALSE]},
            nextId + 1)

\* Delete(ctx, userID): removes the user row and the invitations that
\* reference it
Delete(fault, id) ==
    IF fault # "nil" THEN StoreUnchanged(fault)
    ELSE StoreResult("nil", id,
            {u \in users : u.id # id},
            {i \in invitations : i.userId # id},
            nextId)

\* the invitations a plaintext token can still activate
Activatable(token) ==
    {i \in invitations :
        i.token = HashToken(token) /\ ~i.consumed /\ ~i.expired}

\* an activation that tells the caller why the token was refused
ActivateByTokenTellsWhy(token) ==
    LET matching == {i \in invitations : i.token = HashToken(token)}
    IN  IF matching = {} THEN StoreUnchanged("ErrNotFound")
        ELSE LET inv == CHOOSE i \in matching : TRUE
             IN  IF inv.consumed THEN StoreUnchanged("ErrConsumed")
                 ELSE IF inv.expired THEN StoreUnchanged("ErrExpired")
                 ELSE StoreResult("nil", inv.userId,
                         {IF u.id = inv.userId
                          THEN [u EXCEPT !.isActive = TRUE] ELSE u
                             : u \in users},
                         {IF i = inv THEN [i EXCEPT !.consumed = TRUE] ELSE i
                             : i \in invitations},
                         nextId)

\* an activation whose check does not see the consumed mark a racing
\* activation of the same token has set
ActivateByTokenStaleCheck(token) ==
    LET matching == {i \in invitations :
                        i.token = HashToken(token) /\ ~i.expired}
    IN  IF matching = {} THEN StoreUnchanged("ErrNotFound")
        ELSE LET inv == CHOOSE i \in matching : TRUE
             IN  StoreResult("nil", inv.userId,
                    {IF u.id = inv.userId THEN [u EXCEPT !.isActive = TRUE]
                     ELSE u : u \in users},
                    {IF i = inv THEN [i EXCEPT !.consumed = TRUE] ELSE i
                        : i \in invitations},
                    nextId)

\* activate(plaintext_token): check and transition in one transaction
ActivateByToken(token) ==
    IF Activatable(token) = {} THEN StoreUnchanged("ErrNotFound")
    ELSE LET inv == CHOOSE i \in Activatable(token) : TRUE
         IN  StoreResult("nil", inv.userId,
                {IF u.id = inv.userId THEN [u EXCEPT !.isActive = TRUE] ELSE u
                    : u \in users},
                {IF i = inv THEN [i EXCEPT !.consumed = TRUE] ELSE i
                    : i \in invitations},
                nextId)

\* ------------------------------------------------------------------------
\* registerUserHandler
\* ------------------------------------------------------------------------
Response(status, e, token) == [status |-> status, err |-> e, token |-> token]

\* uuid.New().String() for the invitation token: a value no other call
\* returns
FreshToken(r) == <<"uuid", r>>

OnCreateErrorRetriesEmail(e) ==
    CASE e = "nil" -> "break"
      [] e \in {"ErrDuplicateEmail", "ErrDuplicateUsername"} -> "retry"
      [] OTHER -> "internal"

OnCreateErrorBreaksOnEmail(e) ==
    CASE e \in {"nil", "ErrDuplicateEmail"} -> "break"
      [] e = "ErrDuplicateUsername" -> "retry"
      [] OTHER -> "internal"

\* the switch on the error of CreateAndInvite
OnCreateError(e) ==
    CASE e = "nil" -> "break"
      [] e = "ErrDuplicateEmail" -> "badRequest"
      [] e = "ErrDuplicateUsername" -> "retry"
      [] OTHER -> "internal"

IdUnsetNeverChecked(u) == FALSE

IdUnsetWhatever(u) == TRUE

\* if user.ID == 0
IdUnset(u) == u.ID = 0

CompensationErrorShadowed(sendErr, deleteErr) ==
    IF deleteErr # "nil" THEN deleteErr ELSE sendErr

\* the error handed to internalServerError after the compensating delete
CompensationError(sendErr, deleteErr) == sendErr

NoUser == [Username |-> <<>>, ID |-> 0]

\* record of one collaborator call: the email of the user it was made
\* for, the user id passed or returned, the error returned
Event(op, email, id, e) == [op |-> op, email |-> email, id |-> id, err |-> e]

Call(r, event) == calls' = [calls EXCEPT ![r] = Append(@, event)]

\* the handler writes a response and returns: its locals are gone
Finish(r, status, e, token, last) ==
    /\ pc' = [pc EXCEPT ![r] = "done"]
    /\ resp' = [resp EXCEPT ![r] = Append(@, Response(status, e, token))]
    /\ calls' = [calls EXCEPT ![r] = last]
    /\ payload' = [payload EXCEPT ![r] = NoPayload]
    /\ user' = [user EXCEPT ![r] = NoUser]
    /\ attempt' = [attempt EXCEPT ![r] = 0]
    /\ plainToken' = [plainToken EXCEPT ![r] = NoToken]
    /\ err' = [err EXCEPT ![r] = "nil"]

Init ==
    /\ users = {}
    /\ invitations = {}
    /\ nextId = 1
    /\ outbox = {}
    /\ pc = [r \in Reqs |-> "idle"]
    /\ payload = [r \in Reqs |-> NoPayload]
    /\ user = [r \in Reqs |-> NoUser]
    /\ attempt = [r \in Reqs |-> 0]
    /\ plainToken = [r \in Reqs |-> NoToken]
    /\ err = [r \in Reqs |-> "nil"]
    /\ resp = [r \in Reqs |-> <<>>]
    /\ calls = [r \in Reqs |-> <<>>]
    /\ login = NoLogin
    /\ smtp = NoSMTP

\* username := payload.Username; if username == "" { generateUsername }
FirstUsername(p, id) ==
    IF p.Username = <<>>
    THEN generateUsername(p.FirstName, p.LastName, p.Email, id)
    ELSE p.Username

\* a retry that keeps the username the caller asked for
RetryUsernameAsSupplied(p, id) == FirstUsername(p, id)

\* case store.ErrDuplicateUsername: user.Username = generateUsername(...)
RetryUsername(p, id) ==
    generateUsername(p.FirstName, p.LastName, p.Email, id)

\* readJSON, Validate.Struct, the first username, Password.Set, the token;
\* requests are numbered in the order they arrive
Start(r, p, jsonOk, hashOk, id) ==
    /\ pc[r] = "idle"
    /\ \A q \in Reqs : q < r => pc[q] # "idle"
    /\ IF ~jsonOk
       THEN Finish(r, "BadRequest", "json", NoToken, <<>>)
       ELSE IF ~ValidPayload(p)
       THEN Finish(r, "BadRequest", "validation", NoToken, <<>>)
       ELSE IF ~hashOk
       THEN Finish(r, "InternalServerError", "password hash", NoToken,
                   <<Event("Password.Set", p.Email, 0, "password hash")>>)
       ELSE /\ payload' = [payload EXCEPT ![r] = p]
            /\ user' = [user EXCEPT ![r].Username = FirstUsername(p, id)]
            /\ Call(r, Event("Password.Set", p.Email, 0, "nil"))
            /\ plainToken' = [plainToken EXCEPT ![r] = FreshToken(r)]
            /\ pc' = [pc EXCEPT ![r] = "persist"]
            /\ UNCHANGED <<resp, attempt, err>>
    /\ UNCHANGED <<users, invitations, nextId, outbox, login, smtp>>

\* one iteration of the retry loop, and the user.ID check once the loop is
\* left
Persist(r, fault, id) ==
    /\ pc[r] = "persist"
    /\ LET p == payload[r]
           res == CreateAndInvite(fault, user[r].Username, p.Email,
                                  PasswordSet(p.Password),
                                  HashToken(plainToken[r]))
           event == Event("CreateAndInvite", p.Email, res.id, res.err)
           branch == OnCreateError(res.err)
           created == [user[r] EXCEPT !.ID = res.id]
           renamed == [user[r] EXCEPT !.Username = RetryUsername(p, id)]
           toSend(u) == /\ user' = [user EXCEPT ![r] = u]
                        /\ pc' = [pc EXCEPT ![r] = "send"]
                        /\ Call(r, event)
                        /\ UNCHANGED <<resp, payload, plainToken, err>>
           exhausted == Finish(r, "BadRequest", "ErrDuplicateUsername",
                               NoToken, <<event>>)
       IN  /\ users' = res.users
           /\ invitations' = res.invitations
           /\ nextId' = res.nextId
           /\ CASE branch = "break" ->
                     IF IdUnset(created)
                     THEN exhausted
                     ELSE toSend(created) /\ UNCHANGED attempt
                [] branch = "badRequest" ->
                     Finish(r, "BadRequest", res.err, NoToken, <<event>>)
                [] branch = "retry" ->
                     IF attempt[r] + 1 < MaxAttempts
                     THEN /\ user' = [user EXCEPT ![r] = renamed]
                          /\ attempt' = [attempt EXCEPT ![r] = @ + 1]
                          /\ Call(r, event)
                          /\ UNCHANGED <<pc, resp, payload, plainToken, err>>
                     ELSE IF IdUnset(renamed)
                     THEN exhausted
                     ELSE /\ toSend(renamed)
                          /\ attempt' = [attempt EXCEPT ![r] = @ + 1]
                [] OTHER ->
                     Finish(r, "InternalServerError", res.err, NoToken, <<event>>)
    /\ UNCHANGED <<outbox, login, smtp>>

\* the link built from the stored form of the token
ActivationURLOfHash(token) == <<"confirm", HashToken(token)>>

\* fmt.Sprintf("%s/confirm/%s", app.config.frontendURL, plainToken)
ActivationURL(token) == <<"confirm", token>>

\* app.mailer.Send, and the 201 response when it returns no error; a Send
\* that reports an error may still have delivered the mail
Send(r, ok) ==
    /\ pc[r] = "send"
    /\ LET mail == [to |-> payload[r].Email, username |-> user[r].Username,
                    url |-> ActivationURL(plainToken[r])]
           sendErr == IF ok THEN "nil" ELSE "send failure"
           event == Event("Send", payload[r].Email, user[r].ID, sendErr)
       IN  /\ outbox' = outbox \cup {mail}
           /\ IF ok
              THEN Finish(r, "Created", "nil", plainToken[r], <<event>>)
              ELSE /\ err' = [err EXCEPT ![r] = sendErr]
                   /\ pc' = [pc EXCEPT ![r] = "compensate"]
                   /\ Call(r, event)
                   /\ UNCHANGED <<resp, payload, user, attempt, plainToken>>
    /\ UNCHANGED <<users, invitations, nextId, login, smtp>>

\* a dispatcher that reports a failure
NoopSendFailing(templateFile, username, email, data, isSandbox) ==
    [status |-> 0 - 1, err |-> "send failure"]

\* NoopClient.Send: return 200, nil
NoopSend(templateFile, username, email, data, isSandbox) ==
    [status |-> 200, err |-> "nil"]

\* app.mailer.Send with the no-op client configured
SendNoop(r, isSandbox) ==
    Send(r, NoopSend("user_invitation.tmpl", user[r].Username,
                     payload[r].Email,
                     [Username |-> user[r].Username,
                      ActivationURL |-> ActivationURL(plainToken[r])],
                     isSandbox).err = "nil")

\* the rollback after a failed Send: Delete(ctx, user.ID), then the 500
Compensate(r, fault) ==
    /\ pc[r] = "compensate"
    /\ LET res == Delete(fault, user[r].ID)
           event == Event("Delete", payload[r].Email, user[r].ID, res.err)
       IN  /\ users' = res.users
           /\ invitations' = res.invitations
           /\ nextId' = res.nextId
           /\ Finish(r, "InternalServerError",
                     CompensationError(err[r], res.err), NoToken, <<event>>)
    /\ UNCHANGED <<outbox, login, smtp>>

\* ------------------------------------------------------------------------
\* Activation and the passing of time
\* ------------------------------------------------------------------------
\* the tokens somebody outside the service may hold: mailed or returned
KnownTokens ==
    ({m.url[2] : m \in outbox}
        \cup UNION {{resp[r][i].token : i \in 1..Len(resp[r])} : r \in Reqs})
    \ {NoToken}

Activate(token) ==
    /\ LET res == ActivateByToken(token)
       IN  /\ users' = res.users
           /\ invitations' = res.invitations
           /\ nextId' = res.nextId
    /\ UNCHANGED <<outbox, pc, payload, user, attempt, plainToken, err,
                   resp, calls, login, smtp>>

\* the expiry time of an invitation passes
Expire(inv) ==
    /\ inv \in invitations
    /\ ~inv.expired
    /\ ~inv.consumed
    /\ invitations' = (invitations \ {inv}) \cup {[inv EXCEPT !.expired = TRUE]}
    /\ UNCHANGED <<users, nextId, outbox, pc, payload, user, attempt,
                   plainToken, err, resp, calls, login, smtp>>

\* ------------------------------------------------------------------------
\* createTokenHandler
\* ------------------------------------------------------------------------
WrongPass == <<"p", "w", "9">>

MkLogin(email, pw) == [Email |-> email, Password |-> pw]

LoginPayloads ==
    { MkLogin(EmailAnn, Pass), MkLogin(EmailAnn, WrongPass),
      MkLogin(EmailLee, Pass), MkLogin(EmailAnn, <<"p">>) }

NoLoginPayload == MkLogin(<<>>, <<>>)

\* Validate.Struct(payload) on CreateUserTokenPayload
ValidLogin(p) == IsEmail(p.Email) /\ Len(p.Password) >= PasswordMin

\* app.config.auth.token.exp, in seconds, and app.config.auth.token.iss
TokenTTL == 3

Issuer == "iss"

\* GetByEmail(ctx, email): the Account with this email, or ErrNotFound
GetByEmail(fault, email) ==
    IF fault # "nil" THEN [err |-> fault, users |-> {}]
    ELSE IF \E u \in users : u.email = email
    THEN [err |-> "nil", users |-> {u \in users : u.email = email}]
    ELSE [err |-> "ErrNotFound", users |-> {}]

LoginResponse(status, e, claims) ==
    [status |-> status, err |-> e, claims |-> claims]

OnLookupErrorAllInternal(e) == "internal"

\* the switch on the error of GetByEmail
OnLookupError(e) ==
    CASE e = "ErrNotFound" -> "unauthorized"
      [] OTHER -> "internal"

\* jwt.MapClaims{...}: exp, iat and nbf each read the clock
MapClaims(u, expNow, iatNow, nbfNow) ==
    [sub |-> u.id, exp |-> expNow + TokenTTL, iat |-> iatNow,
     nbf |-> nbfNow, iss |-> Issuer, aud |-> Issuer]

\* the response of createTokenHandler to one request: the body decodes or
\* not, GetByEmail is reached or not, the clock reads expNow, iatNow and
\* nbfNow, GenerateToken signs or fails
createTokenHandler(p, jsonOk, fault, expNow, iatNow, nbfNow, signOk) ==
    IF ~jsonOk THEN LoginResponse("BadRequest", "json", <<>>)
    ELSE IF ~ValidLogin(p) THEN LoginResponse("BadRequest", "validation", <<>>)
    ELSE LET found == GetByEmail(fault, p.Email)
         IN  IF found.err # "nil"
             THEN IF OnLookupError(found.err) = "unauthorized"
                  THEN LoginResponse("Unauthorized", found.err, <<>>)
                  ELSE LoginResponse("InternalServerError", found.err, <<>>)
             ELSE LET u == CHOOSE x \in found.users : TRUE
                  IN  IF ~PasswordCompare(u.password, p.Password)
                      THEN LoginResponse("Unauthorized", "password mismatch",
                                         <<>>)
                      ELSE IF ~signOk
                      THEN LoginResponse("InternalServerError", "sign", <<>>)
                      ELSE LoginResponse("Created", "nil",
                              MapClaims(u, expNow, iatNow, nbfNow))

CreateToken(p, jsonOk, fault, expNow, iatNow, nbfNow, signOk) ==
    /\ login' = createTokenHandler(p, jsonOk, fault, expNow, iatNow, nbfNow,
                                   signOk)
    /\ UNCHANGED <<users, invitations, nextId, outbox, pc, payload, user,
                   attempt, plainToken, err, resp, calls, smtp>>

\* only inputs that are read are drawn: a body that does not decode carries
\* no payload, Password.Set runs on a valid payload only, and a uuid is
\* drawn only where generateUsername is called
U0 == CHOOSE id \in UUIDs : id[1] = "0"

Next ==
    \/ \E r \in Reqs, jsonOk \in BOOLEAN :
          \E p \in IF jsonOk THEN Payloads ELSE {NoPayload} :
             \E hashOk \in IF ValidPayload(p) THEN BOOLEAN ELSE {TRUE} :
                \E id \in IF ValidPayload(p) /\ hashOk /\ p.Username = <<>>
                           THEN UUIDs ELSE {U0} :
                   Start(r, p, jsonOk, hashOk, id)
    \/ \E r \in Reqs, fault \in Faults :
          \E id \in IF fault = "nil" THEN UUIDs ELSE {U0} :
             Persist(r, fault, id)
    \/ \E r \in Reqs, ok \in BOOLEAN : Send(r, ok)
    \/ \E r \in Reqs, fault \in Faults : Compensate(r, fault)
    \/ \E token \in KnownTokens \cup {UnknownToken} : Activate(token)
    \/ \E inv \in invitations : Expire(inv)

Spec == Init /\ [][Next]_vars

\* the three readings of the clock in one login: time.Now() for exp, for
\* iat and for nbf, in this order
ClockReadings ==
    {t \in (1..MaxNow) \X (1..(MaxNow + MaxDrift)) \X (1..(MaxNow + MaxDrift)) :
        t[1] <= t[2] /\ t[2] <= t[3] /\ t[3] <= t[1] + MaxDrift}

\* the request gets as far as building the claims
ReachesClaims(p, jsonOk, fault) ==
    createTokenHandler(p, jsonOk, fault, 1, 1, 1, FALSE).err = "sign"

\* logins beside registrations and activations; only inputs that are read
\* are drawn, and the clock never runs backwards between the three readings
\* of one login
LoginNext ==
    \/ \E r \in LoginReqs, jsonOk \in BOOLEAN :
          \E p \in IF jsonOk THEN Payloads ELSE {NoPayload} :
             \E hashOk \in IF ValidPayload(p) THEN BOOLEAN ELSE {TRUE} :
                \E id \in IF ValidPayload(p) /\ hashOk /\ p.Username = <<>>
                           THEN UUIDs ELSE {U0} :
                   Start(r, p, jsonOk, hashOk, id)
    \/ \E r \in LoginReqs, fault \in Faults :
          \E id \in IF fault = "nil" THEN UUIDs ELSE {U0} :
             Persist(r, fault, id)
    \/ \E r \in LoginReqs, ok \in BOOLEAN : Send(r, ok)
    \/ \E r \in LoginReqs, fault \in Faults : Compensate(r, fault)
    \/ \E token \in KnownTokens : Activate(token)
    \/ \E jsonOk \in BOOLEAN :
          \E p \in IF jsonOk THEN LoginPayloads ELSE {NoLoginPayload} :
             \E fault \in IF jsonOk /\ ValidLogin(p) THEN Faults ELSE {"nil"} :
                \E signOk \in IF ReachesClaims(p, jsonOk, fault)
                              THEN BOOLEAN ELSE {TRUE} :
                   \E t \in IF ReachesClaims(p, jsonOk, fault) /\ signOk
                            THEN ClockReadings ELSE {<<1, 1, 1>>} :
                      CreateToken(p, jsonOk, fault, t[1], t[2], t[3], signOk)

LoginSpec == Init /\ [][LoginNext]_vars

\* registrations and activations with the no-op client as the dispatcher;
\* no request gets to the rollback, which is what C19 states
NoopNext ==
    \/ \E r \in Reqs, jsonOk \in BOOLEAN :
          \E p \in IF jsonOk THEN Payloads ELSE {NoPayload} :
             \E hashOk \in IF ValidPayload(p) THEN BOOLEAN ELSE {TRUE} :
                \E id \in IF ValidPayload(p) /\ hashOk /\ p.Username = <<>>
                           THEN UUIDs ELSE {U0} :
                   Start(r, p, jsonOk, hashOk, id)
    \/ \E r \in Reqs, fault \in Faults :
          \E id \in IF fault = "nil" THEN UUIDs ELSE {U0} :
             Persist(r, fault, id)
    \/ \E r \in Reqs, isSandbox \in BOOLEAN : SendNoop(r, isSandbox)
    \/ \E token \in KnownTokens : Activate(token)

NoopSpec == Init /\ [][NoopNext]_vars

\* NewSMTPClient on every configuration
SMTPNext == \E cfg \in SMTPConfigs : NewClient(cfg)

SMTPSpec == Init /\ [][SMTPNext]_vars

\* generateUsername on each of its paths, as registerUserHandler calls it
UsernameNext ==
    \E r \in Reqs, p \in UsernamePayloads, id \in UUIDs :
       Start(r, p, TRUE, TRUE, id)

UsernameSpec == Init /\ [][UsernameNext]_vars

TypeOK ==
    /\ nextId \in 1..(NumReqs + 1)
    /\ \A r \in Reqs : attempt[r] \in 0..MaxAttempts

\* ------------------------------------------------------------------------
\* Vocabulary of the properties
\* ------------------------------------------------------------------------

Finished(r) == pc[r] = "done"

CallsTo(r, op) == {i \in DOMAIN calls[r] : calls[r][i].op = op}

Attempts(r) == CallsTo(r, "CreateAndInvite")

FailedSends(r) == {i \in CallsTo(r, "Send") : calls[r][i].err # "nil"}

\* ids of the Accounts committed by the request's CreateAndInvite calls
CreatedIds(r) == {calls[r][i].id : i \in {j \in Attempts(r) : calls[r][j].err = "nil"}}

Exists(id) == \E u \in users : u.id = id

EmailTaken(email) == \E u \in users : u.email = email

InvitationsOf(id) == {i \in invitations : i.userId = id}

Reported(r, status, e) ==
    Finished(r) /\ resp[r] = <<Response(status, e, NoToken)>>

SucceededFor(r, email) ==
    /\ Finished(r)
    /\ Len(resp[r]) = 1 /\ resp[r][1].status = "Created"
    /\ calls[r] # <<>> /\ calls[r][Len(calls[r])].email = email

\* the request ended with this call
EndedWith(r, op) ==
    Finished(r) /\ calls[r] # <<>> /\ calls[r][Len(calls[r])].op = op

LastCall(r) == calls[r][Len(calls[r])]

\* the first n attempts of a running request were username conflicts
AllConflicts(r, n) ==
    /\ Cardinality(Attempts(r)) >= n
    /\ \A j \in Attempts(r) :
          Cardinality({i \in Attempts(r) : i <= j}) <= n
             => calls[r][j].err = "ErrDuplicateUsername"

\* this step is a step of request r's handler
Stepped(r) == <<pc[r], calls[r]>> # <<pc'[r], calls'[r]>>

\* the call made in a step of r's handler that made one
NewCall(r) == calls'[r][Len(calls'[r])]

ReportedNext(r, status, e) ==
    pc'[r] = "done" /\ resp'[r] = <<Response(status, e, NoToken)>>

\* a request that has returned does nothing more
FinishedIsFinal(r) ==
    Finished(r) => pc'[r] = "done" /\ calls'[r] = calls[r] /\ resp'[r] = resp[r]

\* q has committed an Account for this email and has not yet run its
\* compensating delete
InWindow(q, email) ==
    pc[q] \in {"send", "compensate"} /\ payload[q].Email = email

\* ------------------------------------------------------------------------
\* Properties
\* ------------------------------------------------------------------------

\* C1: in every registration request where CreateAndInvite succeeded and the
\* Send that followed returned an error, the Account created by the request
\* no longer exists once the request has finished, and the outcome reported
\* is an internal failure.
C1_RolledBackAfterFailedSend ==
    \A r \in Reqs :
       EndedWith(r, "Delete") =>
          /\ ~Exists(LastCall(r).id)
          /\ Reported(r, "InternalServerError", "send failure")

\* C2: a registration request makes at most 5 CreateAndInvite attempts: an
\* attempt is made only after fewer than 5 earlier ones, all of them username
\* conflicts; a conflict on one of the first 4 attempts leaves the request in
\* the loop, a success (also of the 5th) takes it on to the dispatch, and a
\* conflict on the 5th ends it with DuplicateUsername as a bad request.
C2_AttemptStep(r) ==
    pc[r] = "persist" /\ Stepped(r) =>
       LET n == Cardinality(Attempts(r))
           e == NewCall(r).err
       IN  /\ n <= 4
           /\ AllConflicts(r, n)
           /\ NewCall(r).op = "CreateAndInvite"
           /\ e = "ErrDuplicateUsername" /\ n < 4 =>
                 pc'[r] = "persist" /\ Cardinality(Attempts(r)') = n + 1
           /\ e = "ErrDuplicateUsername" /\ n = 4 =>
                 ReportedNext(r, "BadRequest", "ErrDuplicateUsername")
           /\ e = "nil" => pc'[r] = "send"

C2_FiveAttempts ==
    [][\A r \in Reqs : C2_AttemptStep(r) /\ FinishedIsFinal(r)]_vars

C2_FifthAttemptSucceeds ==
    \E r \in Reqs :
       /\ pc[r] = "send"
       /\ Cardinality(Attempts(r)) = 5
       /\ AllConflicts(r, 4)
       /\ CreatedIds(r) # {}

\* C3: when an Account with the email already exists, Pending or Active, a
\* persistence attempt of a later registration with that email that reaches
\* the store reports DuplicateEmail, and the attempt that reports it ends the
\* request as a bad request: no further attempt, no mail, no delete, and the
\* stored Accounts and Invitations are unchanged.
C3_DuplicateEmailStep(r) ==
    pc[r] = "persist" /\ Stepped(r) =>
       /\ EmailTaken(payload[r].Email) /\ NewCall(r).err # "context canceled"
             => NewCall(r).err = "ErrDuplicateEmail"
       /\ NewCall(r).err = "ErrDuplicateEmail" =>
             /\ ReportedNext(r, "BadRequest", "ErrDuplicateEmail")
             /\ Len(calls'[r]) = 1
             /\ NewCall(r).op = "CreateAndInvite"
             /\ users' = users
             /\ invitations' = invitations
             /\ outbox' = outbox

C3_DuplicateEmailIsTerminal ==
    [][\A r \in Reqs :
          /\ C3_DuplicateEmailStep(r)
          /\ Reported(r, "BadRequest", "ErrDuplicateEmail") =>
                pc'[r] = "done" /\ calls'[r] = calls[r]]_vars

C3_RejectedWhileActive ==
    \E r \in Reqs :
       /\ Reported(r, "BadRequest", "ErrDuplicateEmail")
       /\ EndedWith(r, "CreateAndInvite")
       /\ \E u \in users : u.email = LastCall(r).email /\ u.isActive

\* C4: for two concurrent registrations with one email, a persistence
\* attempt of the second that reaches the store after the first has committed
\* its Account and before the first's compensating delete is rejected with
\* DuplicateEmail; and never do both requests end in success for one email.
C4_WindowStep(r) ==
    /\ pc[r] = "persist" /\ Stepped(r)
    /\ \E q \in Reqs \ {r} : InWindow(q, payload[r].Email)
    /\ NewCall(r).err # "context canceled"
    => ReportedNext(r, "BadRequest", "ErrDuplicateEmail")

C4_NoDoubleSuccess ==
    \A q, r \in Reqs :
       q # r /\ Finished(q) /\ Finished(r) =>
          ~(SucceededFor(q, LastCall(q).email)
               /\ SucceededFor(r, LastCall(q).email))

C4_SameEmailRace ==
    [][(\A r \in Reqs : C4_WindowStep(r)) /\ C4_NoDoubleSuccess']_vars

C4_RejectedInWindow ==
    \E q, r \in Reqs :
       /\ q # r
       /\ Reported(r, "BadRequest", "ErrDuplicateEmail")
       /\ EndedWith(r, "CreateAndInvite")
       /\ InWindow(q, LastCall(r).email)

\* C5: in every reachable state every Account that has not been activated
\* has exactly one Invitation and every Invitation belongs to an existing
\* Account, also after a failed attempt and after a compensating delete.
C5_AccountWithInvitation ==
    /\ \A u \in users :
          ~u.isActive => Cardinality(InvitationsOf(u.id)) = 1
    /\ \A i \in invitations : Exists(i.userId)

C5_PairAfterRollback ==
    /\ \E u \in users : ~u.isActive /\ Cardinality(InvitationsOf(u.id)) = 1
    /\ \E r \in Reqs : EndedWith(r, "Delete") /\ LastCall(r).err = "nil"
    /\ \E r \in Reqs :
          \E j \in Attempts(r) : calls[r][j].err = "ErrDuplicateUsername"

\* C6: in every reachable state no two existing Accounts share an email and
\* no two share a username, also when concurrent requests generate the same
\* candidate username.
C6_UniqueEmailAndUsername ==
    \A u, v \in users :
       u.email = v.email \/ u.username = v.username => u = v

C6_TwoAccountsAfterCollision ==
    /\ Cardinality(users) >= 2
    /\ \E r \in Reqs :
          /\ CreatedIds(r) # {}
          /\ \E j \in Attempts(r) : calls[r][j].err = "ErrDuplicateUsername"

\* C7: within one registration request Send is invoked only after a
\* CreateAndInvite of that request has returned success, and at most once: a
\* failed Send is followed by the compensating delete and nothing else.
C7_SendStep(r) ==
    Stepped(r) =>
       /\ calls'[r] # <<>> /\ NewCall(r).op = "Send" =>
             /\ \E j \in Attempts(r) : calls[r][j].err = "nil"
             /\ CallsTo(r, "Send") = {}
       /\ FailedSends(r) # {} =>
             /\ calls'[r] # <<>> /\ NewCall(r).op = "Delete"
             /\ Len(calls'[r]) = 1
             /\ pc'[r] = "done"

C7_SendAfterPersistOnce ==
    [][\A r \in Reqs :
          /\ C7_SendStep(r)
          /\ EndedWith(r, "Send") \/ EndedWith(r, "Delete") =>
                pc'[r] = "done" /\ calls'[r] = calls[r]]_vars

C7_FailedSendThenDelete ==
    \E r \in Reqs :
       /\ EndedWith(r, "Delete")
       /\ LastCall(r).err = "nil"
       /\ \E m \in outbox : m.to = LastCall(r).email

\* C8: when Send fails, Delete is invoked once, on the id of the Account the
\* request created; whether or not that Delete fails, the request then ends
\* with one internal failure carrying the dispatch error, and neither a
\* delete nor a send follows.
C8_CompensateStep(r) ==
    Stepped(r) =>
       /\ FailedSends(r) # {} =>
             /\ pc[r] = "compensate"
             /\ CallsTo(r, "Delete") = {}
             /\ calls'[r] # <<>> /\ NewCall(r).op = "Delete"
             /\ NewCall(r).id \in CreatedIds(r)
             /\ ReportedNext(r, "InternalServerError", "send failure")
       /\ calls'[r] # <<>> /\ NewCall(r).op = "Delete" => FailedSends(r) # {}

C8_CompensateOnce ==
    [][\A r \in Reqs :
          /\ C8_CompensateStep(r)
          /\ EndedWith(r, "Delete") =>
                /\ Len(resp[r]) = 1
                /\ pc'[r] = "done" /\ calls'[r] = calls[r]
                /\ resp'[r] = resp[r]]_vars

C8_DeleteFailedToo ==
    \E r \in Reqs :
       /\ EndedWith(r, "Delete")
       /\ LastCall(r).err = "context canceled"
       /\ Exists(LastCall(r).id)
       /\ Reported(r, "InternalServerError", "send failure")

\* C9: if the request is cancelled upstream after CreateAndInvite has
\* committed, the compensation still runs to completion: no request with a
\* failed dispatch ends with its compensating delete aborted by the
\* cancellation and its Account left behind.
C9_CompensationSurvivesCancel ==
    \A r \in Reqs :
       EndedWith(r, "Delete") /\ LastCall(r).err = "context canceled"
          => \A u \in users : u.id # LastCall(r).id

\* C10: an Account is created Pending, becomes Active at most once and never
\* goes back, and the compensating delete of a registration never removes an
\* Active Account.
C10_ActiveIsKept ==
    [][\A u \in users :
          u.isActive => \E v \in users' : v.id = u.id /\ v.isActive]_vars

\* the plaintext tokens that hash to the token stored with invitation i
PlaintextsOf(i) ==
    {t \in KnownTokens \cup {UnknownToken} : HashToken(t) = i.token}

\* this step marks invitation i consumed: an activation with its token
\* succeeds
Consumes(i) ==
    /\ i \in invitations /\ ~i.consumed
    /\ i \notin invitations'
    /\ [i EXCEPT !.consumed = TRUE] \in invitations'

\* C11: of any number of activation attempts presenting one plaintext token
\* at most one succeeds: the step in which an attempt succeeds finds the
\* Invitation unconsumed and unexpired and leaves it consumed and the Account
\* Active, after it no attempt with that token succeeds, and a consumed
\* Invitation is never unconsumed again.
C11_ActivationStep(i) ==
    /\ Consumes(i) =>
          /\ ~i.expired
          /\ \A u \in users : u.id = i.userId => ~u.isActive
          /\ \E u \in users' : u.id = i.userId /\ u.isActive
          /\ \A j \in invitations \ {i} : j \in invitations'
          /\ \A t \in PlaintextsOf(i) :
                /\ ActivateByToken(t).err = "nil"
                /\ ActivateByToken(t)'.err # "nil"
    /\ i.consumed =>
          /\ \A j \in invitations' : j.userId = i.userId => j = i
          /\ \A t \in PlaintextsOf(i) : ActivateByToken(t).err # "nil"

C11_AtMostOneActivation ==
    [][\A i \in invitations : C11_ActivationStep(i)]_vars

C11_ActivatedOnce ==
    \E i \in invitations :
       /\ i.consumed
       /\ PlaintextsOf(i) # {}
       /\ \E u \in users : u.id = i.userId /\ u.isActive
       /\ \A t \in PlaintextsOf(i) : ActivateByToken(t).err # "nil"

\* C12: an activation with a valid, unexpired, unconsumed token sets its
\* Account Active and its Invitation consumed and changes nothing else; an
\* activation with an unknown, a consumed or an expired token changes no
\* Account and no Invitation and returns the very outcome an unknown token
\* gets.
C12_ActivationOutcome(t) ==
    LET res == ActivateByToken(t)
        unknown == ActivateByToken(UnknownToken)
        valid == {i \in invitations :
                     i.token = HashToken(t) /\ ~i.consumed /\ ~i.expired}
    IN  IF valid # {}
        THEN /\ res.err = "nil"
             /\ \E i \in valid :
                   /\ res.invitations =
                         (invitations \ {i}) \cup {[i EXCEPT !.consumed = TRUE]}
                   /\ res.id = i.userId
                   /\ \A u \in users :
                         IF u.id = i.userId
                         THEN [u EXCEPT !.isActive = TRUE] \in res.users
                         ELSE u \in res.users
                   /\ Cardinality(res.users) = Cardinality(users)
        ELSE /\ res = unknown
             /\ res.err # "nil"
             /\ res.users = users
             /\ res.invitations = invitations

C12_FailuresAlike ==
    \A t \in KnownTokens \cup {UnknownToken} : C12_ActivationOutcome(t)

C12_ConsumedAndExpired ==
    \E i, j \in invitations :
       /\ i.consumed /\ PlaintextsOf(i) # {}
       /\ \E u \in users : u.id = i.userId /\ u.isActive
       /\ j.expired /\ PlaintextsOf(j) # {}

\* the Accounts a login with this email is checked against
AccountsWith(email) == {u \in users : u.email = email}

\* the responses createTokenHandler can give to a request that reaches the
\* store in the current state
TokenResponses(p) ==
    {createTokenHandler(p, TRUE, "nil", t[1], t[2], t[3], signOk) :
        t \in ClockReadings, signOk \in BOOLEAN}

\* C13: a login with an email no Account has and a login with an existing
\* email and a wrong password both end with the error kind Unauthorized, and
\* neither mints a token.
C13_SameUnauthorized ==
    /\ \A p \in LoginPayloads :
          /\ ValidLogin(p)
          /\ \/ AccountsWith(p.Email) = {}
             \/ \E u \in AccountsWith(p.Email) :
                   u.password # PasswordSet(p.Password)
          => \A res \in TokenResponses(p) :
                res.status = "Unauthorized" /\ res.claims = <<>>
    /\ login.err \in {"ErrNotFound", "password mismatch"} =>
          login.status = "Unauthorized" /\ login.claims = <<>>

C13_WrongPasswordRefused ==
    /\ login.status = "Unauthorized"
    /\ login.err = "password mismatch"
    /\ AccountsWith(EmailAnn) # {}
    /\ AccountsWith(EmailLee) = {}
    /\ \A res \in TokenResponses(MkLogin(EmailLee, Pass)) :
          res.status = login.status

\* this step answers a login with a freshly minted token
Mints == login' # login /\ login'.status = "Created"

\* C14: the token endpoint mints a token only for an active user: a login
\* with the right email and password of an Account that is still Pending
\* yields no token.
C14_OnlyActiveGetTokens ==
    [][Mints =>
          \E u \in users : u.id = login'.claims.sub /\ u.isActive]_vars

\* C15: on every successful login the minted claims have sub = the id of
\* the Account found by email, iss = aud = the configured issuer, nbf = iat
\* and exp = iat + the configured TTL, whatever the clock does while the
\* request is handled.
C15_ClaimsFromOneInstant ==
    [][Mints =>
          LET c == login'.claims
          IN  /\ \E p \in LoginPayloads :
                    \E u \in AccountsWith(p.Email) :
                       PasswordCompare(u.password, p.Password) /\ c.sub = u.id
              /\ c.iss = Issuer /\ c.aud = Issuer
              /\ c.nbf = c.iat
              /\ c.exp = c.iat + TokenTTL]_vars

\* the handle generateUsername gave request r
Handle(r) == user[r].Username

Allocated(r) == pc[r] = "persist" /\ payload[r].Username = <<>>

\* C16: for all first names, last names and emails the allocated handle is
\* a base of at most 20 characters followed by a 6-character suffix and
\* holds only characters of [a-z0-9] (annlee and 6 such characters for
\* Ann Lee), on the names path, the email path and the fallback path.
C16_HandleWellFormed ==
    \A r \in Reqs :
       Allocated(r) =>
          /\ Len(Handle(r)) >= 6 + 1
          /\ Len(Handle(r)) <= 20 + 6
          /\ \A i \in 1..Len(Handle(r)) : Handle(r)[i] \in LowerAlnum
          /\ payload[r].FirstName = Ann /\ payload[r].LastName = Lee =>
                /\ Len(Handle(r)) = 12
                /\ SubSeq(Handle(r), 1, 6) = <<"a", "n", "n", "l", "e", "e">>

\* the plaintext tokens the requests have drawn
PlainTokens == {FreshToken(r) : r \in Reqs}

\* C17: in every reachable state the store holds only hashes of invitation
\* tokens, never a plaintext, and a plaintext token leaves the handler only
\* in the mail variables and in the success response.
C17_OnlyHashStored ==
    /\ \A i \in invitations :
          /\ i.token \notin PlainTokens
          /\ \E t \in PlainTokens : i.token = <<"sha256", t>>
    /\ \A u \in users : \A t \in PlainTokens :
          t \notin {u.email, u.username, u.password}
    /\ \A r \in Reqs : \A k \in DOMAIN resp[r] :
          resp[r][k].token # NoToken =>
             /\ resp[r][k].status = "Created"
             /\ resp[r][k].token = FreshToken(r)
    /\ \A m \in outbox : \E t \in PlainTokens : m.url = <<"confirm", t>>

C17_HashStoredTokenMailed ==
    \E r \in Reqs, i \in invitations :
       /\ Finished(r)
       /\ resp[r] = <<Response("Created", "nil", FreshToken(r))>>
       /\ i.token = <<"sha256", FreshToken(r)>>
       /\ \E m \in outbox : m.url = <<"confirm", FreshToken(r)>>

\* C18: for every successful registration the plaintext token of the
\* response is the one in the ActivationURL mailed to the registrant, and its
\* hash is the one stored with the Invitation of the Account the request
\* created; until that Invitation expires or is consumed, activating with the
\* token sets exactly that Account Active, and once it is consumed the
\* Account is Active.
C18_TokenLinksAccount(r) ==
    LET t == resp[r][1].token
        id == LastCall(r).id
        email == LastCall(r).email
        mine == {i \in invitations : i.token = <<"sha256", t>>}
        res == ActivateByToken(t)
    IN  /\ \E m \in outbox : m.to = email /\ m.url = <<"confirm", t>>
        /\ \E u \in users : u.id = id /\ u.email = email
        /\ Cardinality(mine) = 1
        /\ \A i \in mine :
              /\ i.userId = id
              /\ InvitationsOf(id) = {i}
              /\ ~i.consumed /\ ~i.expired =>
                    /\ res.err = "nil" /\ res.id = id
                    /\ \A u \in users :
                          IF u.id = id
                          THEN ~u.isActive
                               /\ [u EXCEPT !.isActive = TRUE] \in res.users
                          ELSE u \in res.users
                    /\ Cardinality(res.users) = Cardinality(users)
              /\ i.consumed => \E u \in users : u.id = id /\ u.isActive

C18_SameTokenEverywhere ==
    \A r \in Reqs :
       Finished(r) /\ Len(resp[r]) = 1 /\ resp[r][1].status = "Created"
          => C18_TokenLinksAccount(r)

C18_ActivatedWithReturnedToken ==
    \E r \in Reqs :
       /\ SucceededFor(r, LastCall(r).email)
       /\ \E i \in invitations :
             /\ i.token = <<"sha256", resp[r][1].token>>
             /\ i.consumed
             /\ i.userId = LastCall(r).id
       /\ \E u \in users : u.id = LastCall(r).id /\ u.isActive

\* C19: the no-op client's Send returns 200 and no error for every input,
\* so with it as the dispatcher a registration whose persistence succeeded
\* ends in success only, and the compensating delete is never invoked.
C19_NoopNeverCompensates ==
    /\ \A r \in Reqs, isSandbox \in BOOLEAN :
          NoopSend("user_invitation.tmpl", user[r].Username, payload[r].Email,
                   [Username |-> user[r].Username,
                    ActivationURL |-> ActivationURL(plainToken[r])],
                   isSandbox) = [status |-> 200, err |-> "nil"]
    /\ \A r \in Reqs :
          /\ pc[r] # "compensate"
          /\ CallsTo(r, "Delete") = {}
          /\ FailedSends(r) = {}
          /\ EndedWith(r, "Send") =>
                resp[r] = <<Response("Created", "nil", FreshToken(r))>>
          /\ /\ EndedWith(r, "CreateAndInvite")
             => LastCall(r).err # "nil" /\ LastCall(r).id = 0
    /\ \A u \in users :
          \E r \in Reqs :
             \/ pc[r] = "send" /\ user[r].ID = u.id
             \/ EndedWith(r, "Send") /\ LastCall(r).id = u.id

C19_RegisteredWithNoop ==
    \E r \in Reqs :
       /\ EndedWith(r, "Send")
       /\ resp[r] = <<Response("Created", "nil", FreshToken(r))>>
       /\ Exists(LastCall(r).id)

\* this step is request r leaving registerUserHandler before Password.Set
RefusedAtOnce(r) ==
    /\ pc[r] = "idle"
    /\ pc'[r] = "done"
    /\ resp'[r][1].status = "BadRequest"

\* C20: a registration request that fails input validation (a missing or
\* malformed field, a confirmation different from the password) ends at once
\* as a bad request: only a payload that passes goes on to Password.Set and
\* the store, and the refused request has computed no hash, called neither
\* CreateAndInvite nor Send nor Delete, and left the store unchanged.
C20_RefusedStep(r) ==
    /\ pc[r] = "idle" /\ pc'[r] # "idle" =>
          \/ RefusedAtOnce(r)
          \/ /\ calls'[r] # <<>>
             /\ NewCall(r).op = "Password.Set"
             /\ \E p \in Payloads :
                   /\ pc'[r] = "persist" => payload'[r] = p
                   /\ NewCall(r).email = p.Email
                   /\ p.FirstName # <<>> /\ p.LastName # <<>>
                   /\ p.Country # ""
                   /\ \E i \in 2..(Len(p.Email) - 1) : p.Email[i] = "@"
                   /\ Len(p.Password) >= 3
                   /\ p.PasswordConfirmation = p.Password
    /\ RefusedAtOnce(r) =>
          /\ resp'[r] \in {<<Response("BadRequest", "validation", NoToken)>>,
                           <<Response("BadRequest", "json", NoToken)>>}
          /\ calls'[r] = <<>>
          /\ UNCHANGED <<users, invitations, nextId, outbox>>

C20_InvalidInputStopsAtOnce ==
    [][\A r \in Reqs :
          /\ C20_RefusedStep(r)
          /\ Reported(r, "BadRequest", "validation") =>
                pc'[r] = "done" /\ calls'[r] = <<>>]_vars

C20_RefusedBesideAccount ==
    \E r \in Reqs :
       /\ Reported(r, "BadRequest", "validation")
       /\ calls[r] = <<>>
       /\ users # {} /\ invitations # {}

\* C21: the user.ID == 0 check after the retry loop agrees with what the
\* loop did: the handler reports DuplicateUsername exactly when all 5
\* attempts were username conflicts and goes on to the dispatch exactly when
\* an attempt succeeded, so no request reports DuplicateUsername while an
\* Account it created exists, and none dispatches for an Account that was
\* not created.
C21_LoopExitStep(r) ==
    pc[r] = "persist" /\ Stepped(r) =>
       LET e == NewCall(r).err
           fifth == Cardinality(Attempts(r)) = 4 /\ AllConflicts(r, 4)
       IN  /\ ReportedNext(r, "BadRequest", "ErrDuplicateUsername")
                <=> (e = "ErrDuplicateUsername" /\ fifth)
           /\ pc'[r] = "send" <=> e = "nil"
           /\ ReportedNext(r, "BadRequest", "ErrDuplicateUsername") =>
                 /\ NewCall(r).id = 0
                 /\ CreatedIds(r) = {}
                 /\ users' = users /\ invitations' = invitations
           /\ pc'[r] = "send" =>
                 /\ NewCall(r).id # 0
                 /\ user'[r].ID = NewCall(r).id
                 /\ \E u \in users' \ users :
                       u.id = NewCall(r).id /\ u.email = payload[r].Email

C21_DispatchStep(r) ==
    Stepped(r) /\ calls'[r] # <<>> /\ NewCall(r).op = "Send" =>
       /\ NewCall(r).id \in CreatedIds(r)
       /\ \E u \in users : u.id = NewCall(r).id

C21_IdCheckAgreesWithLoop ==
    [][\A r \in Reqs : C21_LoopExitStep(r) /\ C21_DispatchStep(r)]_vars

C21_ExhaustedReported ==
    \E r \in Reqs :
       /\ EndedWith(r, "CreateAndInvite")
       /\ LastCall(r).err = "ErrDuplicateUsername"
       /\ LastCall(r).id = 0
       /\ Reported(r, "BadRequest", "ErrDuplicateUsername")
       /\ \A u \in users : u.email # LastCall(r).email

\* the handles generateUsername can give for a payload
HandlesFor(p) ==
    {generateUsername(p.FirstName, p.LastName, p.Email, id) : id \in UUIDs}

\* C22: when the caller supplies a username, the first persistence attempt
\* uses exactly that username; after a username conflict every later attempt
\* uses a handle freshly generated from first name, last name and email, so
\* a successful registration may create an Account whose username is not the
\* one requested.
C22_AttemptUsername(r) ==
    pc[r] = "persist" /\ Stepped(r) =>
       LET p == payload[r]
           tried == user[r].Username
       IN  /\ Attempts(r) = {} /\ p.Username # <<>> => tried = p.Username
           /\ Attempts(r) # {} => tried \in HandlesFor(p)
           /\ NewCall(r).err = "nil" =>
                 \E u \in users' \ users :
                    u.id = NewCall(r).id /\ u.username = tried
           /\ NewCall(r).err = "ErrDuplicateUsername" =>
                 /\ \E u \in users : u.username = tried
                 /\ pc'[r] = "persist" => user'[r].Username \in HandlesFor(p)

C22_SuppliedUsernameFirst ==
    [][\A r \in Reqs : C22_AttemptUsername(r)]_vars

C22_OtherThanRequested ==
    \E r \in Reqs :
       /\ pc[r] = "send"
       /\ payload[r].Username # <<>>
       /\ \E u \in users :
             /\ u.id = user[r].ID
             /\ u.username # payload[r].Username
             /\ u.username \in HandlesFor(payload[r])

\* the message for the first field of the configuration that is missing, in
\* the order host, port, username, password, from-address
FirstMissing(cfg) ==
    CASE cfg.host = "" -> "SMTP host is required"
      [] cfg.host # "" /\ cfg.port <= 0 -> "SMTP port is required"
      [] cfg.host # "" /\ cfg.port > 0 /\ cfg.username = "" ->
            "SMTP username is required"
      [] cfg.host # "" /\ cfg.port > 0 /\ cfg.username # ""
            /\ cfg.password = "" -> "SMTP password is required"
      [] OTHER -> "FROM_EMAIL is required"

\* C23: NewSMTPClient returns an error and a zero client exactly when the
\* host is empty, the port is <= 0, the username, the password or the
\* from-address is empty, the error naming the first such field in this
\* order; otherwise it returns no error and a client holding every
\* configured value unchanged.
C23_ClientOrFirstError ==
    smtp # NoSMTP =>
       LET cfg == smtp.cfg
           bad == \/ cfg.host = ""
                  \/ cfg.port <= 0
                  \/ cfg.username = ""
                  \/ cfg.password = ""
                  \/ cfg.fromEmail = ""
       IN  /\ smtp.err # "nil" <=> bad
           /\ bad => smtp.client = ZeroSMTPClient /\ smtp.err = FirstMissing(cfg)
           /\ ~bad =>
                 /\ smtp.err = "nil"
                 /\ smtp.client.host = cfg.host
                 /\ smtp.client.port = cfg.port
                 /\ smtp.client.username = cfg.username
                 /\ smtp.client.password = cfg.password
                 /\ smtp.client.fromEmail = cfg.fromEmail
                 /\ smtp.client.useTLS = cfg.useTLS
                 /\ smtp.client.insecureSkipVerify = cfg.insecureSkipVerify

C23_PortNamedBeforeUsername ==
    /\ smtp.cfg.host # ""
    /\ smtp.cfg.port = 0
    /\ smtp.cfg.username = ""
    /\ smtp.cfg.useTLS
    /\ smtp.err = "SMTP port is required"
    /\ smtp.client = ZeroSMTPClient

====
